---- MODULE Spec2Model ----
(***************************************************************************)
(* KingsFormsAutomationEngine (src/src/automationEngine.js) and the        *)
(* control routes of KingsFormsServer (src/src/server.js) as a state       *)
(* machine.                                                                *)
(*                                                                         *)
(* JavaScript runs one task at a time: an async function runs without      *)
(* interruption up to its next await on a driver call or timer.  A step of *)
(* the model is therefore either one API call (its synchronous part) or    *)
(* the continuation of one startAutomation invocation after the driver     *)
(* call it awaits has settled.  Every invocation of startAutomation is a   *)
(* "loop" with its own locals (record, retryCount) and its own position.   *)
(*                                                                         *)
(* JS index i of this.records is position i + 1 of the TLA+ sequence.      *)
(***************************************************************************)
EXTENDS Integers, Sequences, FiniteSets, TLC

\* Longest record sequence handed to startAutomation.
NumRecords == 3
\* config.maxRetries (automationEngine.js:14 reads it from MAX_RETRIES).
MaxRetries == 1
\* startAutomation invocations that may be in flight at once.
MaxLoops == 2
\* Engine instances the server may construct (server.js:128).
MaxEngines == 2

\* Largest config.submissionDelay (the base pacing delay) tried.
MaxDelay == 5
\* config.randomDelayVariation is tried at k / VariationSteps, k = 0..VariationSteps.
VariationSteps == 5
\* Math.random() is tried at k / RandomSteps, k = 0..RandomSteps - 1.
RandomSteps == 8

Engines == 1..MaxEngines
Loops == 1..MaxLoops
NoEngine == 0

\* The record sequence of n validated records; a record is named by its row.
Records(n) == [i \in 1..n |-> i]
\* startIndex values a caller may pass (server.js:131 accepts any integer):
\* before the sequence, its first two positions, and behind its end.
StartIndexes == {0 - 1, 0, 1, NumRecords + 1}

VARIABLES
  isRunning,        \* engine: this.isRunning
  currentIndex,     \* engine: this.currentIndex
  records,          \* engine: this.records
  results,          \* engine: this.results {successful, failed, retries}
  browser,          \* engine: this.browser and this.page: "none" (engine not constructed),
                    \*   "null" (constructed, not launched), "open", "closed"
  starting,         \* server: engines whose POST /start handler awaits initialize()
  loops,            \* the startAutomation invocations and their positions
  automationEngine, \* server: this.automationEngine (NoEngine = null)
  uploadedData,     \* server: this.uploadedData (0 = null, else the record count)
  startIdx,         \* history: startIndex of the last accepted start
  solo,             \* history: the current run has exactly one loop, never restarted or resumed
  ctl,              \* history: the first stop/pause of the current run and where it found the loop
  lastErr,          \* history: the call of the current run that threw last: "start", "resume", or "none"
  snapshot,         \* the object a getStatus() call has returned and its caller has not yet sent on
  pacing,           \* the pacing configuration and the last value of getRandomDelay()
                    \*   (drawn: getRandomDelay() has been called)
  detection,        \* one attempt of processRecord: what the page shows after the
                    \*   submission, the driver call that fails, and the outcome
  ingestion         \* one processCSV call: the row just read, rowNumber, results, errors

engineVars == <<isRunning, currentIndex, records, results, browser>>
serverVars == <<automationEngine, uploadedData, starting>>
histVars == <<startIdx, solo, ctl, lastErr>>
probeVars == <<snapshot, pacing, detection, ingestion>>
vars == <<isRunning, currentIndex, records, results, browser, loops,
          automationEngine, uploadedData, starting, startIdx, solo, ctl, lastErr,
          snapshot, pacing, detection, ingestion>>

----------------------------------------------------------------------------
\* Engine construction

\* this.results as the constructor and startAutomation set it.
EmptyResults == [successful |-> <<>>, failed |-> <<>>, retries |-> 0]

\* A slot that holds no invocation.
IdleLoop == [eng |-> NoEngine, pc |-> "idle", record |-> 0, retryCount |-> 0, made |-> 0]
\* A settled invocation: how == "resolved" or "rejected".
SettledLoop(e, how) == [eng |-> e, pc |-> how, record |-> 0, retryCount |-> 0, made |-> 0]

NoCtl == [kind |-> "none", pc |-> "idle", idx |-> 0, retryCount |-> 0]

\* No status object is in hand; no pacing delay is being computed.
NoSnapshot == [isRunning |-> FALSE, currentIndex |-> 0 - 1, totalRecords |-> 0,
               progress |-> 0, successful |-> 0, failed |-> 0, retries |-> 0]
NoPacing == [submissionDelay |-> 0, variation |-> 0, random |-> 0, delay |-> 0, drawn |-> FALSE]
\* No attempt is being examined; no file is being read.
NoFault == [at |-> "none", kind |-> "none"]
NoDetection == [hasUrlChanged |-> FALSE, successIndicators |-> 0, emptyInputs |-> "none",
                errorElements |-> 0, errorText |-> "", submitButton |-> "enabled",
                fault |-> NoFault, outcome |-> "none", error |-> "none", swallowed |-> "none"]
NoIngestion == [data |-> <<>>, rowNumber |-> 0, results |-> <<>>, errors |-> <<>>,
                ended |-> FALSE,
                summary |-> [totalRows |-> 0, validRecords |-> 0, invalidRecords |-> 0]]

Active(l) == loops[l].pc \in {"navigate", "attempt", "fresh", "retry", "delay"}
ActiveLoops(e) == {l \in Loops : loops[l].eng = e /\ Active(l)}
Settled(l) == loops[l].pc \in {"resolved", "rejected"}

\* An entry of results.successful or results.failed.
Entry(idx, rec, att) == [index |-> idx, record |-> rec, attempts |-> att]
\* An entry of results.failed; error.message is named by the attempt (first,
\* second, ...) of the record that threw the error.
FailedEntry(idx, rec, err, att) ==
  [index |-> idx, record |-> rec, error |-> err, attempts |-> att]

----------------------------------------------------------------------------
\* The main loop and processRecord, between awaits

\* while (this.isRunning && this.currentIndex < this.records.length), with
\* idx the value of this.currentIndex when the condition is evaluated.
WhileCond_noFlag(e, idx) == idx < Len(records[e])
WhileCond(e, idx) == isRunning[e] /\ idx < Len(records[e])

\* while (retryCount <= maxRetries && this.isRunning)
InnerWhileCond_noFlag(e, rc) == rc <= MaxRetries
InnerWhileCond(e, rc) == rc <= MaxRetries /\ isRunning[e]

\* if (this.isRunning && this.currentIndex < this.records.length) await sleep
NeedsDelay_noFlag(e, idx) == idx < Len(records[e])
NeedsDelay(e, idx) == isRunning[e] /\ idx < Len(records[e])

\* The finally block: the invocation settles and clears the run flag.
Finish_keepsFlag(e, how) == [loop |-> SettledLoop(e, how), run |-> isRunning[e]]
Finish(e, how) == [loop |-> SettledLoop(e, how), run |-> FALSE]

\* processRecord up to its first await: it reads records[currentIndex] (a
\* negative index reads undefined, and record["First Name"] then throws out
\* of startAutomation), sets retryCount = 0 and starts the first attempt: the
\* inner condition 0 <= maxRetries && isRunning is true, the main loop's
\* condition having just been true in the same task.
EnterRecord(e, idx) ==
  IF idx < 0
  THEN Finish(e, "rejected")
  ELSE [loop |-> [eng |-> e, pc |-> "attempt", record |-> records[e][idx + 1],
                  retryCount |-> 0, made |-> 1],
        run |-> isRunning[e]]

\* Control is at the head of the main loop with currentIndex = idx.
NextIteration(e, idx) ==
  IF WhileCond(e, idx) THEN EnterRecord(e, idx) ELSE Finish(e, "resolved")

\* Control is behind the retry loop of processRecord with currentIndex = idx.
AfterRecord(e, idx) ==
  IF NeedsDelay(e, idx)
  THEN [loop |-> [eng |-> e, pc |-> "delay", record |-> 0, retryCount |-> 0, made |-> 0],
        run |-> isRunning[e]]
  ELSE NextIteration(e, idx)

\* Writes the outcome of a continuation: the loop's new position and the flag.
Continue(l, e, out) ==
  /\ loops' = [loops EXCEPT ![l] = out.loop]
  /\ isRunning' = [isRunning EXCEPT ![e] = out.run]

\* The entry pushed when an attempt succeeds.
SuccessEntry_nextIndex(e, l) == Entry(currentIndex[e] + 1, loops[l].record, loops[l].retryCount + 1)
SuccessEntry_retryCount(e, l) == Entry(currentIndex[e], loops[l].record, loops[l].retryCount)
SuccessEntry(e, l) == Entry(currentIndex[e], loops[l].record, loops[l].retryCount + 1)

\* this.results after the catch block of a failed attempt that brought
\* retryCount to rc: retries++, and the failed entry once rc > maxRetries,
\* with the message of the error just caught.
FailedResults_retryOnly(e, l, rc) ==
  IF rc <= MaxRetries
  THEN [results[e] EXCEPT !.retries = @ + 1]
  ELSE [results[e] EXCEPT !.failed = Append(@, FailedEntry(currentIndex[e], loops[l].record,
                                                            loops[l].made, rc))]
FailedResults_firstError(e, l, rc) ==
  IF rc <= MaxRetries
  THEN [results[e] EXCEPT !.retries = @ + 1]
  ELSE [results[e] EXCEPT !.retries = @ + 1,
                          !.failed = Append(@, FailedEntry(currentIndex[e], loops[l].record, 1, rc))]
FailedResults_noPush(e, l, rc) == [results[e] EXCEPT !.retries = @ + 1]
FailedResults(e, l, rc) ==
  IF rc <= MaxRetries
  THEN [results[e] EXCEPT !.retries = @ + 1]
  ELSE [results[e] EXCEPT !.retries = @ + 1,
                          !.failed = Append(@, FailedEntry(currentIndex[e], loops[l].record,
                                                           loops[l].made, rc))]

\* await this.navigateToForm() settles.
NavigateDone(l) ==
  LET e == loops[l].eng IN
  /\ loops[l].pc = "navigate"
  /\ \/ Continue(l, e, NextIteration(e, currentIndex[e]))
     \/ Continue(l, e, Finish(e, "rejected"))
  /\ UNCHANGED <<currentIndex, records, results, browser, serverVars, histVars, probeVars>>

\* fillForm, submitForm and waitForSubmissionSuccess all return: the entry is
\* pushed and the loop awaits the navigation to a fresh form.
AttemptSucceeds(l) ==
  LET e == loops[l].eng IN
  /\ loops[l].pc = "attempt"
  /\ results' = [results EXCEPT ![e].successful = Append(@, SuccessEntry(e, l))]
  /\ loops' = [loops EXCEPT ![l] = [eng |-> e, pc |-> "fresh", record |-> 0,
                                    retryCount |-> 0, made |-> 0]]
  /\ UNCHANGED <<isRunning, currentIndex, records, browser, serverVars, histVars, probeVars>>

\* The fresh-form navigation settles (its failure is caught and ignored):
\* currentIndex++, break, then the rest of processRecord.
FreshDone(l) ==
  LET e == loops[l].eng IN
  /\ loops[l].pc = "fresh"
  /\ currentIndex' = [currentIndex EXCEPT ![e] = @ + 1]
  /\ Continue(l, e, AfterRecord(e, currentIndex[e] + 1))
  /\ UNCHANGED <<records, results, browser, serverVars, histVars, probeVars>>

\* One of fillForm, submitForm, waitForSubmissionSuccess throws.
AttemptFails_retryInPlace(l) ==
  LET e == loops[l].eng
      rc == loops[l].retryCount + 1
  IN
  /\ loops[l].pc = "attempt"
  /\ results' = [results EXCEPT ![e] = FailedResults(e, l, rc)]
  /\ IF rc <= MaxRetries
     THEN /\ loops' = [loops EXCEPT ![l].retryCount = rc, ![l].made = @ + 1]
          /\ UNCHANGED <<isRunning, currentIndex>>
     ELSE /\ currentIndex' = [currentIndex EXCEPT ![e] = @ + 1]
          /\ Continue(l, e, AfterRecord(e, currentIndex[e] + 1))
  /\ UNCHANGED <<records, browser, serverVars, histVars, probeVars>>
AttemptFails_extraRetry(l) ==
  LET e == loops[l].eng
      rc == loops[l].retryCount + 1
  IN
  /\ loops[l].pc = "attempt"
  /\ results' = [results EXCEPT ![e] = FailedResults(e, l, rc)]
  /\ IF rc <= MaxRetries + 1
     THEN /\ loops' = [loops EXCEPT ![l].pc = "retry", ![l].retryCount = rc]
          /\ UNCHANGED <<isRunning, currentIndex>>
     ELSE /\ currentIndex' = [currentIndex EXCEPT ![e] = @ + 1]
          /\ Continue(l, e, AfterRecord(e, currentIndex[e] + 1))
  /\ UNCHANGED <<records, browser, serverVars, histVars, probeVars>>
AttemptFails(l) ==
  LET e == loops[l].eng
      rc == loops[l].retryCount + 1
  IN
  /\ loops[l].pc = "attempt"
  /\ results' = [results EXCEPT ![e] = FailedResults(e, l, rc)]
  /\ IF rc <= MaxRetries
     THEN /\ loops' = [loops EXCEPT ![l].pc = "retry", ![l].retryCount = rc]
          /\ UNCHANGED <<isRunning, currentIndex>>
     ELSE /\ currentIndex' = [currentIndex EXCEPT ![e] = @ + 1]
          /\ Continue(l, e, AfterRecord(e, currentIndex[e] + 1))
  /\ UNCHANGED <<records, browser, serverVars, histVars, probeVars>>

\* await this.handleRetry() settles: back to the inner condition, or its
\* error leaves processRecord and startAutomation.
RetryDone(l) ==
  LET e == loops[l].eng IN
  /\ loops[l].pc = "retry"
  /\ \/ IF InnerWhileCond(e, loops[l].retryCount)
        THEN /\ loops' = [loops EXCEPT ![l].pc = "attempt", ![l].made = @ + 1]
             /\ UNCHANGED isRunning
        ELSE Continue(l, e, AfterRecord(e, currentIndex[e]))
     \/ Continue(l, e, Finish(e, "rejected"))
  /\ UNCHANGED <<currentIndex, records, results, browser, serverVars, histVars, probeVars>>

\* await this.sleep(delay) settles.
DelayDone(l) ==
  LET e == loops[l].eng IN
  /\ loops[l].pc = "delay"
  /\ Continue(l, e, NextIteration(e, currentIndex[e]))
  /\ UNCHANGED <<currentIndex, records, results, browser, serverVars, histVars, probeVars>>

LoopStep(l) ==
  \/ NavigateDone(l)
  \/ AttemptSucceeds(l)
  \/ FreshDone(l)
  \/ AttemptFails(l)
  \/ RetryDone(l)
  \/ DelayDone(l)

----------------------------------------------------------------------------
\* The engine's API

\* The slots with e's settled invocations given back.
Cleared(e) ==
  [l \in Loops |-> IF loops[l].eng = e /\ Settled(l) THEN IdleLoop ELSE loops[l]]

FreeSlots == {l \in Loops : ~Active(l)}
FirstFree == CHOOSE l \in FreeSlots : \A m \in FreeSlots : l <= m

\* this.page is set: navigateToForm can call this.page.goto.
HasPage(e) == browser[e] \in {"open", "closed"}

\* if (this.isRunning) throw new Error("Automation is already running"),
\* for a caller that left the flag at run.
StartThrows_afterAssign(e, recs, s, run) ==
  /\ isRunning' = [isRunning EXCEPT ![e] = run]
  /\ records' = [records EXCEPT ![e] = recs]
  /\ currentIndex' = [currentIndex EXCEPT ![e] = s]
  /\ UNCHANGED <<results, loops>>
StartThrows(e, recs, s, run) ==
  /\ isRunning' = [isRunning EXCEPT ![e] = run]
  /\ UNCHANGED <<records, currentIndex, results, loops>>

\* The assignments of startAutomation and its first await.  Without a page,
\* this.page.goto throws inside navigateToForm and the invocation is over
\* (catch, finally) before any other task runs.
StartBegins(e, recs, s) ==
  /\ FreeSlots # {}
  /\ records' = [records EXCEPT ![e] = recs]
  /\ currentIndex' = [currentIndex EXCEPT ![e] = s]
  /\ results' = [results EXCEPT ![e] = EmptyResults]
  /\ IF HasPage(e)
     THEN /\ isRunning' = [isRunning EXCEPT ![e] = TRUE]
          /\ loops' = [Cleared(e) EXCEPT ![FirstFree] =
                         [eng |-> e, pc |-> "navigate", record |-> 0,
                          retryCount |-> 0, made |-> 0]]
     ELSE /\ isRunning' = [isRunning EXCEPT ![e] = FALSE]
          /\ loops' = [Cleared(e) EXCEPT ![FirstFree] = SettledLoop(e, "rejected")]

\* startAutomation(records, startIndex) as called with the flag at run.
StartCall(e, recs, s, run) ==
  IF run THEN StartThrows(e, recs, s, run) ELSE StartBegins(e, recs, s)

startAutomation(e, recs, s) == StartCall(e, recs, s, isRunning[e])

\* stop() and pause(): this.isRunning = false.
stop(e) == isRunning' = [isRunning EXCEPT ![e] = FALSE]
pause_toggle(e) == isRunning' = [isRunning EXCEPT ![e] = ~@]
pause(e) == isRunning' = [isRunning EXCEPT ![e] = FALSE]

\* resume(): sets the flag, then calls startAutomation, which reads it.
resume(e) ==
  IF ~isRunning[e] /\ Len(records[e]) > 0
  THEN StartCall(e, records[e], currentIndex[e], TRUE)
  ELSE UNCHANGED <<isRunning, records, currentIndex, results, loops>>

\* getStatus(); Math.round(x) is the floor of x + 1/2.
Progress(e) ==
  IF Len(records[e]) > 0
  THEN (2 * 100 * currentIndex[e] + Len(records[e])) \div (2 * Len(records[e]))
  ELSE 0
getStatus_processed(e) ==
  [isRunning |-> isRunning[e],
   currentIndex |-> currentIndex[e],
   totalRecords |-> Len(records[e]),
   progress |-> Progress(e),
   successful |-> currentIndex[e] - Len(results[e].failed),
   failed |-> Len(results[e].failed),
   retries |-> results[e].retries]
getStatus(e) ==
  [isRunning |-> isRunning[e],
   currentIndex |-> currentIndex[e],
   totalRecords |-> Len(records[e]),
   progress |-> Progress(e),
   successful |-> Len(results[e].successful),
   failed |-> Len(results[e].failed),
   retries |-> results[e].retries]

----------------------------------------------------------------------------
\* History kept beside the program's state

\* An accepted start opens a new run.
HistStart(e, s) ==
  IF isRunning[e]
  THEN /\ lastErr' = [lastErr EXCEPT ![e] = "start"]
       /\ UNCHANGED <<startIdx, solo, ctl>>
  ELSE /\ lastErr' = [lastErr EXCEPT ![e] = "none"]
       /\ startIdx' = [startIdx EXCEPT ![e] = s]
       /\ solo' = [solo EXCEPT ![e] = (ActiveLoops(e) = {})]
       /\ ctl' = [ctl EXCEPT ![e] = NoCtl]

\* The first stop or pause that finds the loop of a single-loop run in flight,
\* and where.
HistCtl(e, kind) ==
  /\ ctl' = [ctl EXCEPT ![e] =
       IF @.kind # "none" \/ ActiveLoops(e) = {} \/ ~solo[e] THEN @
       ELSE LET l == CHOOSE m \in ActiveLoops(e) : TRUE IN
            [kind |-> kind, pc |-> loops[l].pc, idx |-> currentIndex[e],
             retryCount |-> loops[l].retryCount]]
  /\ UNCHANGED <<startIdx, solo, lastErr>>

\* A resume() that sets the flag takes the run out of the single-loop
\* scenarios; of the stop or pause before it only the kind is kept.  Its call
\* of startAutomation finds the flag set and throws, and resume() rejects.
HistResume(e) ==
  IF ~isRunning[e] /\ Len(records[e]) > 0
  THEN /\ solo' = [solo EXCEPT ![e] = FALSE]
       /\ ctl' = [ctl EXCEPT ![e] = [NoCtl EXCEPT !.kind = ctl[e].kind]]
       /\ lastErr' = [lastErr EXCEPT ![e] = "resume"]
       /\ UNCHANGED startIdx
  ELSE UNCHANGED histVars

----------------------------------------------------------------------------
\* The engine driven directly, as test-automation.js drives it

CallStart(e, n, s) ==
  /\ browser[e] = "open"
  /\ startAutomation(e, Records(n), s)
  /\ HistStart(e, s)
  /\ UNCHANGED <<browser, serverVars, probeVars>>

CallStop(e) ==
  /\ browser[e] = "open"
  /\ stop(e)
  /\ HistCtl(e, "stop")
  /\ UNCHANGED <<currentIndex, records, results, browser, loops, serverVars, probeVars>>

CallPause(e) ==
  /\ browser[e] = "open"
  /\ pause(e)
  /\ HistCtl(e, "pause")
  /\ UNCHANGED <<currentIndex, records, results, browser, loops, serverVars, probeVars>>

CallResume(e) ==
  /\ browser[e] = "open"
  /\ resume(e)
  /\ HistResume(e)
  /\ UNCHANGED <<browser, serverVars, probeVars>>

\* new KingsFormsAutomationEngine()
NewEngine ==
  [isRunning |-> FALSE, currentIndex |-> 0, records |-> <<>>, results |-> EmptyResults]

\* One engine, constructed and initialized; no server.
Init ==
  /\ isRunning = [e \in Engines |-> NewEngine.isRunning]
  /\ currentIndex = [e \in Engines |-> NewEngine.currentIndex]
  /\ records = [e \in Engines |-> NewEngine.records]
  /\ results = [e \in Engines |-> NewEngine.results]
  /\ browser = [e \in Engines |-> IF e = 1 THEN "open" ELSE "none"]
  /\ loops = [l \in Loops |-> IdleLoop]
  /\ automationEngine = NoEngine
  /\ uploadedData = 0
  /\ starting = {}
  /\ startIdx = [e \in Engines |-> 0]
  /\ solo = [e \in Engines |-> FALSE]
  /\ ctl = [e \in Engines |-> NoCtl]
  /\ lastErr = [e \in Engines |-> "none"]
  /\ snapshot = NoSnapshot
  /\ pacing = NoPacing
  /\ detection = NoDetection
  /\ ingestion = NoIngestion

\* The single-worker scenario: the caller starts a run only when no earlier
\* invocation is still in flight (a start during a run is rejected).
RunStart(e, n, s) ==
  /\ isRunning[e] \/ ActiveLoops(e) = {}
  /\ CallStart(e, n, s)

NextRun ==
  \/ \E n \in 1..NumRecords, s \in StartIndexes : RunStart(1, n, s)
  \/ CallStop(1)
  \/ CallPause(1)
  \/ CallResume(1)
  \/ \E l \in Loops : LoopStep(l)

\* A start while the loop of a run that was stopped or paused is still in
\* flight: isRunning is false, so the call is accepted.  The caller passes the
\* same records again, from the beginning or from where the run stands.
OverlapStart(e, s) ==
  /\ ~isRunning[e] /\ ActiveLoops(e) # {} /\ solo[e]
  /\ CallStart(e, Len(records[e]), s)

Next ==
  \/ NextRun
  \/ \E s \in {0, currentIndex[1]} : OverlapStart(1, s)

Spec == Init /\ [][Next]_vars

SpecRun == Init /\ [][NextRun]_vars

----------------------------------------------------------------------------
\* The control routes of the server

\* The engine a POST /start constructs: the first one not yet constructed.
FreshEngines == {e \in Engines : browser[e] = "none"}
FirstFresh == CHOOSE e \in FreshEngines : \A f \in FreshEngines : e <= f

\* The uploads the server scenarios are run with: one record, and two.
UploadSizes == {1, 2}

\* POST /upload with n valid records (none: 400, nothing stored).
PostUpload(n) ==
  /\ uploadedData' = n
  /\ UNCHANGED <<engineVars, loops, automationEngine, starting, histVars, probeVars>>

\* The guard of POST /start: 400 without data or with a running engine.
StartRefused ==
  \/ uploadedData = 0
  \/ automationEngine # NoEngine /\ isRunning[automationEngine]

\* POST /start up to await this.automationEngine.initialize(): a new engine
\* replaces the server's engine.
PostStart ==
  /\ ~StartRefused
  /\ FreshEngines # {}
  /\ automationEngine' = FirstFresh
  /\ browser' = [browser EXCEPT ![FirstFresh] = "null"]
  /\ starting' = starting \cup {FirstFresh}
  /\ UNCHANGED <<isRunning, currentIndex, records, results, loops, uploadedData, histVars, probeVars>>

\* initialize(): puppeteer.launch and newPage have settled, this.page is set.
LaunchDone(e) ==
  /\ e \in starting
  /\ browser[e] = "null"
  /\ browser' = [browser EXCEPT ![e] = "open"]
  /\ UNCHANGED <<isRunning, currentIndex, records, results, loops, serverVars, histVars, probeVars>>

\* initialize() throws: the handler answers 500 and starts nothing.
InitFails(e) ==
  /\ e \in starting
  /\ starting' = starting \ {e}
  /\ UNCHANGED <<engineVars, loops, automationEngine, uploadedData, histVars, probeVars>>

\* initialize() of engine e returns and its handler goes on: it calls
\* this.automationEngine.startAutomation(this.uploadedData.records, s) on the
\* engine the server holds now (a TypeError, answered 500, when /clear has
\* reset it); the promise runs in the background.
InitDone(e, s) ==
  /\ e \in starting
  /\ browser[e] = "open"
  /\ starting' = starting \ {e}
  /\ IF automationEngine = NoEngine \/ uploadedData = 0
     THEN UNCHANGED <<isRunning, currentIndex, records, results, loops, histVars>>
     ELSE /\ startAutomation(automationEngine, Records(uploadedData), s)
          /\ HistStart(automationEngine, s)
  /\ UNCHANGED <<browser, automationEngine, uploadedData, probeVars>>

\* POST /stop, /pause, /resume: 400 without an engine, else the engine's call.
PostStop ==
  /\ automationEngine # NoEngine
  /\ stop(automationEngine)
  /\ HistCtl(automationEngine, "stop")
  /\ UNCHANGED <<currentIndex, records, results, browser, loops, serverVars, probeVars>>

PostPause ==
  /\ automationEngine # NoEngine
  /\ pause(automationEngine)
  /\ HistCtl(automationEngine, "pause")
  /\ UNCHANGED <<currentIndex, records, results, browser, loops, serverVars, probeVars>>

PostResume ==
  /\ automationEngine # NoEngine
  /\ resume(automationEngine)
  /\ HistResume(automationEngine)
  /\ UNCHANGED <<browser, serverVars, probeVars>>

\* cleanup(): if (this.browser) this.browser.close()
cleanup(e) == IF browser[e] = "open" THEN "closed" ELSE browser[e]

\* POST /clear: the data is dropped; the engine, if any, is stopped, cleaned up
\* and forgotten.
PostClear ==
  /\ uploadedData' = 0
  /\ automationEngine' = NoEngine
  /\ IF automationEngine = NoEngine
     THEN UNCHANGED <<isRunning, browser, ctl>>
     ELSE /\ stop(automationEngine)
          /\ browser' = [browser EXCEPT ![automationEngine] = cleanup(automationEngine)]
          /\ ctl' = [ctl EXCEPT ![automationEngine] =
                       IF @.kind # "none" \/ ActiveLoops(automationEngine) = {}
                          \/ ~solo[automationEngine] THEN @
                       ELSE LET l == CHOOSE m \in ActiveLoops(automationEngine) : TRUE IN
                            [kind |-> "stop", pc |-> loops[l].pc,
                             idx |-> currentIndex[automationEngine],
                             retryCount |-> loops[l].retryCount]]
  /\ UNCHANGED <<currentIndex, records, results, loops, starting, startIdx, solo, lastErr, probeVars>>

\* The server before any request.
InitServer ==
  /\ isRunning = [e \in Engines |-> NewEngine.isRunning]
  /\ currentIndex = [e \in Engines |-> NewEngine.currentIndex]
  /\ records = [e \in Engines |-> NewEngine.records]
  /\ results = [e \in Engines |-> NewEngine.results]
  /\ browser = [e \in Engines |-> "none"]
  /\ loops = [l \in Loops |-> IdleLoop]
  /\ automationEngine = NoEngine
  /\ uploadedData = 0
  /\ starting = {}
  /\ startIdx = [e \in Engines |-> 0]
  /\ solo = [e \in Engines |-> FALSE]
  /\ ctl = [e \in Engines |-> NoCtl]
  /\ lastErr = [e \in Engines |-> "none"]
  /\ snapshot = NoSnapshot
  /\ pacing = NoPacing
  /\ detection = NoDetection
  /\ ingestion = NoIngestion

NextServer ==
  \/ \E n \in UploadSizes : PostUpload(n)
  \/ PostStart
  \/ \E e \in Engines : LaunchDone(e)
  \/ \E e \in Engines : InitFails(e)
  \/ \E e \in Engines, s \in StartIndexes : InitDone(e, s)
  \/ PostStop
  \/ PostPause
  \/ PostResume
  \/ PostClear
  \/ \E l \in Loops : LoopStep(l)

SpecServer == InitServer /\ [][NextServer]_vars

\* GET /status: the idle object without an engine, else getStatus() of the
\* engine the server holds.
StatusResponse ==
  IF automationEngine = NoEngine
  THEN [isRunning |-> FALSE, currentIndex |-> 0, totalRecords |-> uploadedData,
        progress |-> 0, successful |-> 0, failed |-> 0, retries |-> 0]
  ELSE getStatus(automationEngine)

\* The handler of GET /status builds the status object ...
GetStatus ==
  /\ snapshot = NoSnapshot
  /\ snapshot' = StatusResponse
  /\ UNCHANGED <<engineVars, loops, serverVars, histVars, pacing, detection, ingestion>>

\* ... and sends it with res.json in the same task.
SendStatus ==
  /\ snapshot # NoSnapshot
  /\ snapshot' = NoSnapshot
  /\ UNCHANGED <<engineVars, loops, serverVars, histVars, pacing, detection, ingestion>>

\* The server polled for its status: no other task runs between the two
\* halves of the GET /status handler.  One run is started, at index 0 or 1,
\* and it may be stopped.
NoStatusTask == snapshot = NoSnapshot

NextStatus ==
  \/ NoStatusTask /\ \E n \in 1..NumRecords : PostUpload(n)
  \/ NoStatusTask /\ automationEngine = NoEngine /\ PostStart
  \/ NoStatusTask /\ \E e \in Engines : LaunchDone(e)
  \/ NoStatusTask /\ \E e \in Engines, s \in {0, 1} : InitDone(e, s)
  \/ NoStatusTask /\ PostStop
  \/ NoStatusTask /\ \E l \in Loops : LoopStep(l)
  \/ GetStatus
  \/ SendStatus

SpecStatus == InitServer /\ [][NextStatus]_vars

\* Delays are kept exact as integers: a delay d stands for
\* d / DelayScale time units, with the variation v / VariationSteps and the
\* random number r / RandomSteps.
DelayScale == 2 * VariationSteps * RandomSteps

\* getRandomDelay(): baseDelay + (Math.random() - 0.5) * variation with
\* variation = baseDelay * randomDelayVariation, times DelayScale.
getRandomDelay_twiceVariation(base, v, r) ==
  base * DelayScale + (2 * r - RandomSteps) * 2 * (base * v)
getRandomDelay(base, v, r) ==
  base * DelayScale + (2 * r - RandomSteps) * (base * v)

\* processRecord computes the delay of its sleep: const delay = this.getRandomDelay()
GetRandomDelay ==
  /\ \E r \in 0..(RandomSteps - 1) :
       pacing' = [pacing EXCEPT !.random = r,
                                !.delay = getRandomDelay(pacing.submissionDelay, pacing.variation, r),
                                !.drawn = TRUE]
  /\ UNCHANGED <<engineVars, loops, serverVars, histVars, snapshot, detection, ingestion>>

\* An engine constructed with some base delay and some variation in [0, 1].
InitDelay ==
  /\ isRunning = [e \in Engines |-> NewEngine.isRunning]
  /\ currentIndex = [e \in Engines |-> NewEngine.currentIndex]
  /\ records = [e \in Engines |-> NewEngine.records]
  /\ results = [e \in Engines |-> NewEngine.results]
  /\ browser = [e \in Engines |-> IF e = 1 THEN "open" ELSE "none"]
  /\ loops = [l \in Loops |-> IdleLoop]
  /\ automationEngine = NoEngine
  /\ uploadedData = 0
  /\ starting = {}
  /\ startIdx = [e \in Engines |-> 0]
  /\ solo = [e \in Engines |-> FALSE]
  /\ ctl = [e \in Engines |-> NoCtl]
  /\ lastErr = [e \in Engines |-> "none"]
  /\ snapshot = NoSnapshot
  /\ \E b \in 0..MaxDelay, v \in 0..VariationSteps :
       pacing = [submissionDelay |-> b, variation |-> v, random |-> 0, delay |-> b * DelayScale,
                 drawn |-> FALSE]
  /\ detection = NoDetection
  /\ ingestion = NoIngestion

NextDelay == GetRandomDelay

SpecDelay == InitDelay /\ [][NextDelay]_vars

----------------------------------------------------------------------------
\* One attempt: fillForm, submitForm, waitForSubmissionSuccess

\* Most elements a selector of waitForSubmissionSuccess is tried to match.
MaxElements == 2

\* The driver calls of an attempt that can fail, in the order they are made.
DriverCalls == {"fillForm", "submitForm", "$$success", "evaluateInputs", "$$error",
                "evaluateText", "$submit", "evaluateDisabled"}
\* How a driver call fails: its timeout runs out, the frame is detached by a
\* navigation ("Navigating frame was detached"), the session is torn down.
FaultKinds == {"timeout", "detached", "closed"}

\* A call returns, or throws an error; errors are named by their kind, and
\* "validation" is the error whose message starts "Form validation error".
Returned == [thrown |-> FALSE, error |-> "none"]
Thrown(err) == [thrown |-> TRUE, error |-> err]

\* The try block of waitForSubmissionSuccess on the page d, in its order:
\* the success indicators, the inputs, the success test, the error elements
\* and their text, the submit button.
DetectionBody_strict(d) ==
  IF d.fault.at \in {"$$success", "evaluateInputs"} THEN Thrown(d.fault.kind)
  ELSE IF d.successIndicators > 0 \/ d.hasUrlChanged \/ d.emptyInputs # "none" THEN Returned
  ELSE IF d.fault.at = "$$error" THEN Thrown(d.fault.kind)
  ELSE IF d.errorElements > 0 /\ d.fault.at = "evaluateText" THEN Thrown(d.fault.kind)
  ELSE IF d.errorElements > 0 /\ d.errorText # "" THEN Thrown("validation")
  ELSE IF d.fault.at = "$submit" THEN Thrown(d.fault.kind)
  ELSE IF d.submitButton = "missing" THEN Returned
  ELSE IF d.fault.at = "evaluateDisabled" THEN Thrown(d.fault.kind)
  ELSE IF d.submitButton = "disabled" THEN Returned
  ELSE Thrown("validation")
DetectionBody(d) ==
  IF d.fault.at \in {"$$success", "evaluateInputs"} THEN Thrown(d.fault.kind)
  ELSE IF d.successIndicators > 0 \/ d.hasUrlChanged \/ d.emptyInputs # "none" THEN Returned
  ELSE IF d.fault.at = "$$error" THEN Thrown(d.fault.kind)
  ELSE IF d.errorElements > 0 /\ d.fault.at = "evaluateText" THEN Thrown(d.fault.kind)
  ELSE IF d.errorElements > 0 /\ d.errorText # "" THEN Thrown("validation")
  ELSE IF d.fault.at = "$submit" THEN Thrown(d.fault.kind)
  ELSE IF d.submitButton = "missing" THEN Returned
  ELSE IF d.fault.at = "evaluateDisabled" THEN Thrown(d.fault.kind)
  ELSE IF d.submitButton = "disabled" THEN Returned
  ELSE Returned

\* waitForSubmissionSuccess: its catch block rethrows the validation error
\* and returns on every other error.
waitForSubmissionSuccess(d) ==
  LET r == DetectionBody(d) IN
  IF r.thrown /\ r.error = "validation" THEN r ELSE Returned

\* The try block of processRecord for one attempt.
AttemptCalls(d) ==
  IF d.fault.at \in {"fillForm", "submitForm"} THEN Thrown(d.fault.kind)
  ELSE waitForSubmissionSuccess(d)

\* The error a driver call of waitForSubmissionSuccess threw and its catch
\* block kept to itself.
Swallowed(d) ==
  IF d.fault.at \in {"fillForm", "submitForm"} THEN "none"
  ELSE IF DetectionBody(d).thrown /\ ~waitForSubmissionSuccess(d).thrown
       THEN DetectionBody(d).error
       ELSE "none"

\* processRecord runs one attempt: the three calls return and the record is
\* pushed to results.successful ("Success"), or one throws and the catch
\* block counts a retry ("RecoverableFailure").
TryAttempt ==
  /\ detection.outcome = "none"
  /\ detection' = [detection EXCEPT
                     !.outcome = IF AttemptCalls(detection).thrown
                                 THEN "RecoverableFailure" ELSE "Success",
                     !.error = AttemptCalls(detection).error,
                     !.swallowed = Swallowed(detection)]
  /\ UNCHANGED <<engineVars, loops, serverVars, histVars, snapshot, pacing, ingestion>>

\* The pages an attempt may find after the submission and the driver call,
\* if any, that fails.
Pages ==
  {d \in [hasUrlChanged : BOOLEAN, successIndicators : 0..MaxElements,
          emptyInputs : {"none", "some", "all"},
          errorElements : 0..MaxElements, errorText : {"", "text"},
          submitButton : {"missing", "disabled", "enabled"},
          fault : {NoFault} \cup [at : DriverCalls, kind : FaultKinds],
          outcome : {"none"}, error : {"none"}, swallowed : {"none"}] :
     d.errorElements = 0 => d.errorText = ""}

InitDetect ==
  /\ isRunning = [e \in Engines |-> NewEngine.isRunning]
  /\ currentIndex = [e \in Engines |-> NewEngine.currentIndex]
  /\ records = [e \in Engines |-> NewEngine.records]
  /\ results = [e \in Engines |-> NewEngine.results]
  /\ browser = [e \in Engines |-> IF e = 1 THEN "open" ELSE "none"]
  /\ loops = [l \in Loops |-> IdleLoop]
  /\ automationEngine = NoEngine
  /\ uploadedData = 0
  /\ starting = {}
  /\ startIdx = [e \in Engines |-> 0]
  /\ solo = [e \in Engines |-> FALSE]
  /\ ctl = [e \in Engines |-> NoCtl]
  /\ lastErr = [e \in Engines |-> "none"]
  /\ snapshot = NoSnapshot
  /\ pacing = NoPacing
  /\ detection \in Pages
  /\ ingestion = NoIngestion

NextDetect == TryAttempt

SpecDetect == InitDetect /\ [][NextDetect]_vars

----------------------------------------------------------------------------
\* CSVProcessor: processCSV and validateRecord

\* Most data rows of an uploaded file.
MaxRows == 2

requiredFields == {"Title", "First Name", "Last Name", "Phone Number", "Email",
                   "Marital Status", "Group", "Church Name"}
optionalFields == {"Kingschat Handle", "Birthday", "Age", "Sub-Teams"}
\* The fields this.fieldValidators has a validator for, and those of them
\* whose validator throws on a value it does not accept (validateTitle and
\* validateAge only log a warning).
fieldValidators == {"Email", "Phone Number", "First Name", "Last Name", "Title",
                    "Birthday", "Marital Status", "Gender", "Age"}
ThrowingValidators == fieldValidators \ {"Title", "Age"}
\* The columns of the template file (server.js:231).
Columns == requiredFields \cup optionalFields \cup {"Gender", "Cell Name"}

\* A row gives every column a value, named by its kind: "absent" (the row has
\* no such key), "blank" (empty or white space), "bad" (text the column's
\* validator does not accept, or unusual text where there is none), "good".
GoodRow == [f \in Columns |-> "good"]
\* The rows tried: the good row and every row that differs from it in one column.
Rows == {GoodRow} \cup {[GoodRow EXCEPT ![f] = v] : f \in Columns, v \in {"absent", "blank", "bad"}}

\* validator(trimmedValue, field): validateEmail lower-cases the address and
\* validatePhoneNumber rewrites the number; the others return the value.
Rejects(f, v) == f \in ThrowingValidators /\ v = "bad"
Validated(f, v) == IF f \in {"Email", "Phone Number"} THEN "normal" ELSE v

\* validateRecord(data, rowNumber)
validateRecord(data) ==
  LET kept == {f \in requiredFields \cup optionalFields :
                 data[f] # "absent" /\ (f \in requiredFields \/ data[f] # "blank")}
  IN IF \E f \in requiredFields : data[f] \in {"absent", "blank"}
     THEN [thrown |-> TRUE, error |-> "Missing required field", record |-> <<>>]
     ELSE IF \E f \in kept : f \in fieldValidators /\ Rejects(f, data[f])
     THEN [thrown |-> TRUE, error |-> "Invalid value", record |-> <<>>]
     ELSE [thrown |-> FALSE, error |-> "none",
           record |-> [f \in kept |-> IF f \in fieldValidators
                                      THEN Validated(f, data[f]) ELSE data[f]]]

\* The "data" handler of processCSV.
OnData(data) ==
  LET r == validateRecord(data) IN
  /\ ~ingestion.ended
  /\ ingestion.rowNumber < MaxRows
  /\ ingestion' = [ingestion EXCEPT
                     !.data = data,
                     !.rowNumber = @ + 1,
                     !.results = IF r.thrown THEN @ ELSE Append(@, r.record),
                     !.errors = IF r.thrown
                                THEN Append(@, [row |-> ingestion.rowNumber + 1, error |-> r.error])
                                ELSE @]
  /\ UNCHANGED <<engineVars, loops, serverVars, histVars, snapshot, pacing, detection>>

\* The "end" handler of processCSV: the promise resolves with the summary.
OnEnd ==
  /\ ~ingestion.ended
  /\ ingestion' = [ingestion EXCEPT
                     !.ended = TRUE,
                     !.summary = [totalRows |-> ingestion.rowNumber,
                                  validRecords |-> Len(ingestion.results),
                                  invalidRecords |-> Len(ingestion.errors)]]
  /\ UNCHANGED <<engineVars, loops, serverVars, histVars, snapshot, pacing, detection>>

NextIngest ==
  \/ \E data \in Rows : OnData(data)
  \/ OnEnd

SpecIngest == Init /\ [][NextIngest]_vars

\* The row has no text in a required field; some validator of
\* this.fieldValidators does not accept the row's value for its field.
MissingRequired(data) == \E f \in requiredFields : data[f] \in {"absent", "blank"}
FailsValidator(data) == \E f \in fieldValidators : Rejects(f, data[f])

\* Every awaited driver call and timer settles, and the task queue runs the
\* continuation that waits for it.
FairRun == SpecRun /\ \A l \in Loops : WF_vars(LoopStep(l))

----------------------------------------------------------------------------
\* Vocabulary of the properties

\* No invocation of e is in flight and at least one has settled.
RunEnded(e) == ActiveLoops(e) = {} /\ \E l \in Loops : loops[l].eng = e /\ Settled(l)
RunResolved(e) == ActiveLoops(e) = {} /\ \E l \in Loops : loops[l].eng = e /\ loops[l].pc = "resolved"

\* The invocation is past navigateToForm, inside while (isRunning && ...).
InMainLoop(l) == loops[l].pc \in {"attempt", "fresh", "retry", "delay"}

\* Every entry of the run result, successes first.
AllEntries(e) == results[e].successful \o results[e].failed
EntriesOf(e, i) == {k \in 1..Len(AllEntries(e)) : AllEntries(e)[k].index = i}

\* Loop l starts an attempt (a fillForm call) in this step.
BeginsAttempt(l) == loops'[l].pc = "attempt" /\ loops[l].pc # "attempt"

\* A stop()/pause() reached a single-loop run while an attempt was in flight,
\* and nothing has restarted or resumed the run since.
StoppedInAttempt(e, kind) ==
  solo[e] /\ ctl[e].kind = kind /\ ctl[e].pc = "attempt"

----------------------------------------------------------------------------
\* C1: a start() on a running controller throws "Automation is already
\* running" and leaves records, currentIndex, the run flag, the run result
\* and the loops exactly as they were.
C1_RejectedStartChangesNothing ==
  [][\A e \in Engines :
       (lastErr'[e] = "start" /\ lastErr[e] # "start")
         => /\ isRunning[e]
            /\ isRunning'[e] = isRunning[e]
            /\ records'[e] = records[e]
            /\ currentIndex'[e] = currentIndex[e]
            /\ results'[e] = results[e]
            /\ loops' = loops]_vars

\* A start was rejected in the middle of a run that has already recorded a
\* success, and the run is still in flight.
C1_Witness ==
  \E e \in Engines :
    /\ lastErr[e] = "start"
    /\ isRunning[e]
    /\ ActiveLoops(e) # {}
    /\ Len(results[e].successful) > 0

\* C2: on one controller at most one main loop is active and at most one
\* record is being attempted, whatever the interleaving of the calls.
C2_SingleLoop ==
  \A e \in Engines :
    /\ Cardinality({l \in ActiveLoops(e) : InMainLoop(l)}) <= 1
    /\ Cardinality({l \in ActiveLoops(e) : loops[l].pc = "attempt"}) <= 1

\* C3: whatever the interleaving of the requests, the guard of POST /start
\* keeps the server to one run: over all the engines it has constructed, at
\* most one invocation is inside its main loop.
C3_SingleRun ==
  Cardinality({l \in Loops : Active(l) /\ InMainLoop(l)}) <= 1

\* C4: resume() on a controller that is not running and has records left
\* makes the main loop active again, at the same currentIndex.
C4_ResumeRestartsLoop ==
  [][\A e \in Engines :
       (CallResume(e) /\ ~isRunning[e] /\ Len(records[e]) > 0
          /\ currentIndex[e] >= 0 /\ currentIndex[e] < Len(records[e]))
         => /\ \E l \in Loops : loops'[l].eng = e
                                 /\ loops'[l].pc \in {"navigate", "attempt", "fresh", "retry", "delay"}
            /\ currentIndex'[e] = currentIndex[e]]_vars

\* C5 as stated: stop() arrives while an attempt of record i is in flight and
\* retries remain; when the run has ended record i has an entry in successful
\* or failed, currentIndex <= i + 1 and no later record has an entry.
C5_StopFinalizesRecord ==
  \A e \in Engines :
    (StoppedInAttempt(e, "stop") /\ ctl[e].retryCount < MaxRetries /\ RunEnded(e))
      => /\ EntriesOf(e, ctl[e].idx) # {}
         /\ currentIndex[e] <= ctl[e].idx + 1
         /\ \A k \in 1..Len(AllEntries(e)) : AllEntries(e)[k].index <= ctl[e].idx

\* C5 amended: stop() arrives while an attempt of record i is in flight and
\* retries remain; when the run has ended either that attempt succeeded
\* (record i has exactly one entry, in successful, and currentIndex = i + 1)
\* or it failed and record i was abandoned (no entry, currentIndex = i); no
\* later record has an entry.
C5_StopFinalizesOrAbandons ==
  \A e \in Engines :
    (StoppedInAttempt(e, "stop") /\ ctl[e].retryCount < MaxRetries /\ RunEnded(e))
      => LET i == ctl[e].idx IN
         /\ \A k \in 1..Len(AllEntries(e)) : AllEntries(e)[k].index <= i
         /\ \A k \in 1..Len(results[e].failed) : results[e].failed[k].index # i
         /\ \/ currentIndex[e] = i + 1 /\ Cardinality(EntriesOf(e, i)) = 1
            \/ currentIndex[e] = i /\ EntriesOf(e, i) = {}

\* The run was stopped in an attempt of a record that has a predecessor and
\* a successor, the attempt failed, and the run ended without an entry for it.
C5_Witness ==
  \E e \in Engines :
    /\ StoppedInAttempt(e, "stop") /\ ctl[e].retryCount < MaxRetries /\ RunEnded(e)
    /\ ctl[e].idx > startIdx[e]
    /\ ctl[e].idx + 1 < Len(records[e])
    /\ EntriesOf(e, ctl[e].idx) = {}
    /\ results[e].retries > 0

\* C6: a pause() that arrives while an attempt of record i is in flight lets
\* record i reach its terminal outcome (an entry, and currentIndex past i)
\* before the loop stops iterating.
C6_PauseCompletesRecord ==
  \A e \in Engines :
    (StoppedInAttempt(e, "pause") /\ RunEnded(e))
      => /\ EntriesOf(e, ctl[e].idx) # {}
         /\ currentIndex[e] > ctl[e].idx

\* C7: after stop() during a run the loop begins no further attempt, and
\* (every driver call settling) the invocation settles with the controller
\* not running.  A resume() that sets the flag again ends the obligation.
C7_StopEndsRun ==
  /\ \A e \in Engines :
       (solo[e] /\ ctl[e].kind = "stop" /\ ActiveLoops(e) # {})
         ~> ((RunEnded(e) /\ ~isRunning[e]) \/ ~solo[e])
  /\ [][\A l \in Loops :
          (loops[l].eng # NoEngine /\ solo[loops[l].eng] /\ solo'[loops[l].eng]
             /\ ctl[loops[l].eng].kind = "stop")
            => ~BeginsAttempt(l)]_vars

\* A run that was stopped while its loop was in flight has ended.
C7_Witness ==
  \E e \in Engines :
    /\ solo[e] /\ ctl[e].kind = "stop" /\ ctl[e].pc \in {"attempt", "retry", "delay"}
    /\ RunEnded(e) /\ ~isRunning[e]
    /\ currentIndex[e] < Len(records[e])

\* C8: a run over a non-empty sequence, started at index 0 and neither
\* paused nor stopped, ends with successful + failed = len(records) and
\* currentIndex = len(records).
C8_UninterruptedRunCounts ==
  \A e \in Engines :
    (solo[e] /\ ctl[e].kind = "none" /\ startIdx[e] = 0 /\ Len(records[e]) > 0
       /\ RunResolved(e))
      => /\ getStatus(e).successful + getStatus(e).failed = Len(records[e])
         /\ currentIndex[e] = Len(records[e])

\* Such a run over the longest sequence, with a success and a failure.
C8_Witness ==
  \E e \in Engines :
    /\ solo[e] /\ ctl[e].kind = "none" /\ startIdx[e] = 0 /\ RunResolved(e)
    /\ Len(records[e]) = NumRecords
    /\ Len(results[e].successful) > 0
    /\ Len(results[e].failed) > 0

\* C9: in every state of a run that status() can observe,
\* successful + failed = currentIndex - startIndex.
C9_CountsMatchIndex ==
  \A e \in Engines :
    (solo[e] /\ ActiveLoops(e) # {})
      => getStatus(e).successful + getStatus(e).failed = currentIndex[e] - startIdx[e]

\* C10: a success entry carries the number of attempts its loop made for the
\* record (1 for a first-attempt success, never more than maxRetries + 1),
\* and a failed entry carries maxRetries + 1, the attempts made.
C10_AttemptCounts ==
  /\ [](\A e \in Engines :
          /\ \A k \in 1..Len(results[e].successful) :
               results[e].successful[k].attempts \in 1..(MaxRetries + 1)
          /\ \A k \in 1..Len(results[e].failed) :
               results[e].failed[k].attempts = MaxRetries + 1)
  /\ [][\A l \in Loops :
          LET e == loops[l].eng IN
          (loops[l].pc = "attempt" /\ loops'[l] # loops[l])
            => /\ Len(results'[e].successful) > Len(results[e].successful)
                  => results'[e].successful[Len(results'[e].successful)].attempts = loops[l].made
               /\ Len(results'[e].failed) > Len(results[e].failed)
                  => results'[e].failed[Len(results'[e].failed)].attempts = loops[l].made]_vars

\* One run recorded a first-attempt success, a success on the last allowed
\* attempt and an exhausted record.
C10_Witness ==
  \E e \in Engines :
    /\ \E k \in 1..Len(results[e].successful) : results[e].successful[k].attempts = 1
    /\ \E k \in 1..Len(results[e].successful) : results[e].successful[k].attempts = MaxRetries + 1
    /\ Len(results[e].failed) > 0

----------------------------------------------------------------------------
\* The scenario of C11: maxRetries = 1, three records from index 0, no stop or
\* pause; the first record succeeded at once, the second failed once and then
\* succeeded, the third failed both its attempts; the run has resolved.
Scenario11(e) ==
  /\ MaxRetries = 1
  /\ solo[e] /\ ctl[e].kind = "none" /\ startIdx[e] = 0 /\ RunResolved(e)
  /\ records[e] = Records(3)
  /\ results[e].successful = <<Entry(0, 1, 1), Entry(1, 2, 2)>>
  /\ results[e].failed = <<FailedEntry(2, 3, 2, 2)>>

\* C11 as stated: the scenario's run reports successCount = 2,
\* failedCount = 1, retries = 1 and currentIndex = 3.
C11_ScenarioRetriesOne ==
  \A e \in Engines :
    Scenario11(e) => getStatus(e) = [isRunning |-> FALSE, currentIndex |-> 3,
                                     totalRecords |-> 3, progress |-> 100,
                                     successful |-> 2, failed |-> 1, retries |-> 1]

\* C11 amended: the scenario's run reports successCount = 2, failedCount = 1,
\* currentIndex = 3 and retries = 3, one for every failed attempt (one of
\* record 2, two of record 3).
C11_ScenarioRetriesThree ==
  \A e \in Engines :
    Scenario11(e) => getStatus(e) = [isRunning |-> FALSE, currentIndex |-> 3,
                                     totalRecords |-> 3, progress |-> 100,
                                     successful |-> 2, failed |-> 1, retries |-> 3]

\* The scenario's run has completed.
C11_Witness == \E e \in Engines : Scenario11(e)

\* C12: once the initial navigation has succeeded nothing that fails while a
\* record is processed aborts the run: an invocation inside the main loop
\* never settles as rejected.
C12_RecordFailuresNeverAbort ==
  [][\A l \in Loops : InMainLoop(l) => loops'[l].pc # "rejected"]_vars

\* The invocation of e was rejected before any attempt (navigateToForm threw,
\* or the first record could not be read) and the controller is as that left
\* it.
NavigationFailed(e) ==
  /\ ActiveLoops(e) = {}
  /\ ~isRunning[e]
  /\ \E l \in Loops : loops[l].eng = e /\ loops[l].pc = "rejected"
  /\ results[e] = EmptyResults

\* C13: when the initial navigation fails the start call is rejected with no
\* record attempted, the run result empty, currentIndex at the start index
\* and the controller not running; the next start is accepted.
C13_NavigationFailureEndsRun ==
  /\ [][\A l \in Loops :
          (loops[l].pc = "navigate" /\ loops'[l].pc = "rejected")
            => /\ results'[loops[l].eng] = EmptyResults
               /\ currentIndex'[loops[l].eng] = startIdx[loops[l].eng]
               /\ ~isRunning'[loops[l].eng]]_vars
  /\ [][\A e \in Engines :
          (NavigationFailed(e)
             /\ \E n \in 1..NumRecords, s \in StartIndexes : CallStart(e, n, s))
            => /\ lastErr'[e] = "none"
               /\ \E l \in Loops : loops'[l].eng = e /\ loops'[l].pc = "navigate"]_vars

\* The navigation of a run over the longest sequence, started at index 1,
\* has failed.
C13_Witness ==
  \E e \in Engines :
    /\ NavigationFailed(e)
    /\ ~isRunning[e] /\ startIdx[e] = 1 /\ currentIndex[e] = 1
    /\ Len(records[e]) = NumRecords

\* C14: within a run started at index k the terminal outcomes are appended
\* for k, k + 1, k + 2, ... in this order, none skipped, and an attempt of a
\* record begins only when every record before it has its outcome.
C14_SequenceOrder ==
  [][\A e \in Engines :
       LET before == Len(results[e].successful) + Len(results[e].failed)
           after == Len(results'[e].successful) + Len(results'[e].failed)
       IN
       /\ Len(results'[e].successful) = Len(results[e].successful) + 1
            => results'[e].successful[Len(results'[e].successful)].index = startIdx[e] + before
       /\ Len(results'[e].failed) = Len(results[e].failed) + 1
            => results'[e].failed[Len(results'[e].failed)].index = startIdx[e] + before
       /\ \A l \in Loops :
            (loops'[l].eng = e /\ BeginsAttempt(l))
              => /\ currentIndex'[e] = startIdx'[e] + after
                 /\ loops'[l].record = records'[e][currentIndex'[e] + 1]]_vars

\* A run started at index 1 has recorded the failure of that record and is
\* at the second attempt of the next one.
C14_Witness ==
  \E e \in Engines, l \in Loops :
    /\ startIdx[e] = 1
    /\ loops[l].eng = e /\ loops[l].pc = "attempt" /\ loops[l].made = 2
    /\ Len(results[e].failed) > 0

\* C15: whatever the interleaving of stop, pause, start and resume with the
\* loop, no index appears more than once across the successful and failed
\* lists of a run result.
C15_FateDecidedOnce ==
  \A e \in Engines :
    \A j, k \in 1..Len(AllEntries(e)) :
      j # k => AllEntries(e)[j].index # AllEntries(e)[k].index

\* C16: stop() and pause() are idempotent: the call leaves the run flag
\* cleared, and a call that finds it cleared (as a second call in a row does)
\* changes nothing of the controller or of its loops, so that what the loop
\* does next is the same after two calls as after one.
C16_StopPauseIdempotent ==
  [][\A e \in Engines :
       (CallStop(e) \/ CallPause(e))
         => /\ ~isRunning'[e]
            /\ [isRunning' EXCEPT ![e] = FALSE] = isRunning'
            /\ ~isRunning[e] => UNCHANGED <<engineVars, loops, serverVars>>]_vars

\* pause() has reached a run during the second attempt of a record and
\* the attempt is still in flight: the next call is a second one in a row.
C16_Witness ==
  \E e \in Engines, l \in Loops :
    /\ ctl[e].kind = "pause" /\ ~isRunning[e]
    /\ loops[l].eng = e /\ loops[l].pc = "attempt" /\ loops[l].made = 2

\* C17: status() is a pure read that never waits: the GET /status handler
\* can run in every state between two tasks, its step leaves the run flag,
\* currentIndex, records, the run result and the loops unchanged, and the
\* object it returns holds the flag, the index, the lengths of the successful
\* and failed lists and the retry counter of that instant.
C17_StatusIsPureRead ==
  /\ [](snapshot = NoSnapshot => ENABLED GetStatus)
  /\ [][(snapshot = NoSnapshot /\ snapshot' # NoSnapshot)
         => /\ UNCHANGED <<engineVars, loops, serverVars>>
            /\ automationEngine # NoEngine
                 => /\ snapshot'.isRunning = isRunning[automationEngine]
                    /\ snapshot'.currentIndex = currentIndex[automationEngine]
                    /\ snapshot'.totalRecords = Len(records[automationEngine])
                    /\ snapshot'.successful = Len(results[automationEngine].successful)
                    /\ snapshot'.failed = Len(results[automationEngine].failed)
                    /\ snapshot'.retries = results[automationEngine].retries]_vars

\* A status object was built while an attempt was in flight, after a success,
\* an exhausted record and a stop request.
C17_Witness ==
  /\ snapshot # NoSnapshot
  /\ snapshot.successful > 0 /\ snapshot.failed > 0 /\ ~snapshot.isRunning
  /\ \E l \in Loops : loops[l].eng = automationEngine /\ loops[l].pc = "attempt"

\* C18: a run stopped at index k and then resumed classifies every record
\* from k onward as the uninterrupted run from k does, which classifies them
\* all: once the resumed run is no longer in flight every record from
\* currentIndex onward has an entry in successful or failed.
C18_ResumedRunClassifiesRest ==
  \A e \in Engines :
    (~solo[e] /\ ctl[e].kind = "stop" /\ isRunning[e] /\ RunResolved(e)
       /\ currentIndex[e] >= 0)
      => \A i \in 0..(Len(records[e]) - 1) :
           i >= currentIndex[e] => EntriesOf(e, i) # {}

\* C19: POST /resume on a paused run with records remaining applies the
\* request and is acknowledged: the engine's resume() does not throw and the
\* run continues with a loop in flight.
C19_ResumeRouteAcknowledged ==
  [][(PostResume /\ ctl[automationEngine].kind = "pause"
        /\ ~isRunning[automationEngine]
        /\ currentIndex[automationEngine] >= 0
        /\ currentIndex[automationEngine] < Len(records[automationEngine]))
       => /\ lastErr'[automationEngine] # "resume"
          /\ ActiveLoops(automationEngine)' # {}]_vars

\* C20: for every base delay, every variation in [0, 1] and every random
\* number in [0, 1) the pacing delay lies within
\* [base * (1 - variation / 2), base * (1 + variation / 2)].
C20_DelayWithinBounds ==
  /\ pacing.delay >= pacing.submissionDelay * (2 * VariationSteps - pacing.variation) * RandomSteps
  /\ pacing.delay <= pacing.submissionDelay * (2 * VariationSteps + pacing.variation) * RandomSteps

\* The largest base delay with the full variation, at the lowest random
\* number: the delay is the lower bound, base / 2.
C20_Witness ==
  /\ pacing.submissionDelay = MaxDelay /\ pacing.variation = VariationSteps
  /\ pacing.delay * 2 = MaxDelay * DelayScale

StartsRun(e) ==
  ~isRunning[e] /\ \E n \in 1..NumRecords, s \in StartIndexes : CallStart(e, n, s)

\* C23: within a run of one loop currentIndex never decreases; a step that
\* changes it adds exactly one and leaves an entry for the record it moves
\* past in successful or failed; and the entries number the records the
\* index has moved past, plus the success whose fresh-form navigation is
\* still awaited.
C23_IndexAdvancesWithEntry ==
  /\ [][\A e \in Engines :
          (solo[e] /\ solo'[e] /\ ~StartsRun(e))
            => \/ currentIndex'[e] = currentIndex[e]
               \/ /\ currentIndex'[e] = currentIndex[e] + 1
                  /\ \E k \in 1..Len(AllEntries(e)') :
                       AllEntries(e)'[k].index = currentIndex[e]]_vars
  /\ [](\A e \in Engines :
          solo[e] => LET ahead == Len(AllEntries(e)) - (currentIndex[e] - startIdx[e])
                     IN /\ ahead \in {0, 1}
                        /\ ahead = 1 <=> \E l \in ActiveLoops(e) : loops[l].pc = "fresh")

\* A run of one loop has moved past every record, one of them successful and
\* one of them failed.
C23_Witness ==
  \E e \in Engines :
    /\ solo[e] /\ startIdx[e] = 0
    /\ currentIndex[e] = NumRecords
    /\ Len(results[e].successful) > 0
    /\ Len(results[e].failed) > 0

\* Loop l's attempt fails in this step and it is the last the record is allowed.
ExhaustsRetries(l) == AttemptFails(l) /\ loops[l].retryCount + 1 > MaxRetries

\* C24: when the attempt that fails is the record's (maxRetries + 1)-th, the
\* step appends one entry to failed, with the record's index, the record, the
\* message of the error that attempt threw and attempts = maxRetries + 1, and
\* moves currentIndex on; the invocation does not reject, and while the run
\* is still running and records remain it paces and then attempts the next
\* record.
C24_ExhaustedRecordIsFailed ==
  [][\A l \in Loops :
       LET e == loops[l].eng IN
       /\ (ExhaustsRetries(l) /\ solo[e])
            => /\ results'[e].failed =
                    Append(results[e].failed,
                           FailedEntry(currentIndex[e], records[e][currentIndex[e] + 1],
                                       MaxRetries + 1, MaxRetries + 1))
               /\ results'[e].successful = results[e].successful
               /\ currentIndex'[e] = currentIndex[e] + 1
               /\ loops'[l].pc # "rejected"
               /\ (isRunning[e] /\ currentIndex'[e] < Len(records[e]))
                    <=> loops'[l].pc = "delay"
       /\ (DelayDone(l) /\ solo[e] /\ isRunning[e])
            => /\ loops'[l].pc = "attempt"
               /\ loops'[l].record = records[e][currentIndex[e] + 1]
               /\ loops'[l].made = 1]_vars

\* The first record of a run has just failed its last attempt, the run is
\* still running and the loop paces before the second record.
C24_Witness ==
  \E e \in Engines, l \in Loops :
    /\ solo[e] /\ isRunning[e] /\ loops[l].eng = e /\ loops[l].pc = "delay"
    /\ results[e].successful = <<>>
    /\ results[e].failed = <<FailedEntry(0, 1, MaxRetries + 1, MaxRetries + 1)>>
    /\ currentIndex[e] = 1

\* C28: a failed attempt that leaves retries hands the loop to handleRetry
\* (the page reload or re-navigation), and a second or later attempt of a
\* record begins only in the step in which that handleRetry call returns: no
\* attempt follows a failed one without the reset in between.
C28_RetryFollowsReset ==
  [][\A l \in Loops :
       /\ (AttemptFails(l) /\ loops[l].retryCount + 1 <= MaxRetries)
            => /\ loops'[l].pc = "retry"
               /\ loops'[l].made = loops[l].made
       /\ (loops'[l].pc = "attempt" /\ loops'[l].made > 1
             /\ loops'[l].made # loops[l].made)
            => /\ RetryDone(l)
               /\ loops[l].pc = "retry"
               /\ loops'[l].made = loops[l].made + 1
               /\ loops'[l].record = loops[l].record]_vars

\* The second attempt of a record is in flight: one attempt has failed and
\* the reset after it has returned.
C28_Witness ==
  \E l \in Loops :
    /\ loops[l].pc = "attempt" /\ loops[l].made = 2 /\ loops[l].retryCount = 1
    /\ results[loops[l].eng].retries = 1

\* C29: a stop() or pause() that finds the loop inside the pacing delay ends
\* the wait: the loop is no longer waiting for the timer when the call
\* returns.
C29_PacingSleepInterruptible ==
  [][\A e \in Engines, l \in Loops :
       ((CallStop(e) \/ CallPause(e)) /\ loops[l].eng = e /\ loops[l].pc = "delay")
         => loops'[l].pc # "delay"]_vars

\* The step moves currentIndex of e past a record: its terminal outcome is in.
RecordDone(e) == currentIndex'[e] = currentIndex[e] + 1

\* C30: in a run of one loop the loop starts a pacing delay exactly in the
\* step that moves currentIndex past a record while the run flag is set and
\* records remain, so none after the last record or once a stop or pause has
\* cleared the flag; and the first attempt of a record that is not the run's
\* first begins exactly when one pacing delay ends.
C30_DelayBetweenRecords ==
  [][\A l \in Loops :
       LET e == loops[l].eng IN
       (LoopStep(l) /\ solo[e])
         => /\ (loops'[l].pc = "delay" /\ loops[l].pc # "delay")
                 <=> (RecordDone(e) /\ isRunning[e] /\ currentIndex'[e] < Len(records[e]))
            /\ (loops'[l].pc = "attempt" /\ loops'[l].made = 1
                  /\ currentIndex[e] > startIdx[e])
                 => DelayDone(l)
            /\ loops[l].pc = "delay"
                 => /\ currentIndex'[e] = currentIndex[e]
                    /\ results'[e] = results[e]]_vars

\* The loop paces between the first and the second record of a run.
C30_Witness ==
  \E e \in Engines, l \in Loops :
    /\ solo[e] /\ isRunning[e] /\ loops[l].eng = e /\ loops[l].pc = "delay"
    /\ startIdx[e] = 0 /\ currentIndex[e] = 1 /\ Len(records[e]) > 1
    /\ Len(results[e].successful) = 1

\* C25: whenever the page shows error markers with text after the submission
\* and every driver call answers, the attempt is a RecoverableFailure carrying
\* the validation error, whatever the other signals are.
C25_ErrorMarkersFirst ==
  (detection.outcome # "none" /\ detection.fault = NoFault
     /\ detection.errorElements > 0 /\ detection.errorText # "")
    => /\ detection.outcome = "RecoverableFailure"
       /\ detection.error = "validation"

\* C26: a page with no error marker, no success marker, the location
\* unchanged, no input empty and the submit button present and enabled, all
\* driver calls answering, makes the attempt a Success.
C26_AmbiguousIsSuccess ==
  (detection.outcome # "none" /\ detection.fault = NoFault
     /\ detection.errorElements = 0 /\ detection.successIndicators = 0
     /\ ~detection.hasUrlChanged /\ detection.emptyInputs = "none"
     /\ detection.submitButton = "enabled")
    => /\ detection.outcome = "Success"
       /\ detection.error = "none"

\* The attempt on the page without any signal has run and is a Success.
C26_Witness ==
  /\ detection.outcome = "Success" /\ detection.fault = NoFault
  /\ detection.errorElements = 0 /\ detection.successIndicators = 0
  /\ ~detection.hasUrlChanged /\ detection.emptyInputs = "none"
  /\ detection.submitButton = "enabled"

\* C27: an attempt in which a driver call ran into its timeout or lost its
\* session, in fillForm, in submitForm or in the success detection, is a
\* RecoverableFailure, never a Success.
C27_DriverFailureIsFailure ==
  (detection.outcome # "none"
     /\ (detection.error \in {"timeout", "closed"}
           \/ detection.swallowed \in {"timeout", "closed"}))
    => detection.outcome = "RecoverableFailure"

\* C22: a row that lacks a required field or has a value its field's
\* validator does not accept adds no record to the sequence processCSV
\* returns; every record of that sequence has text in all eight required
\* fields; and the summary has validRecords + invalidRecords = totalRows.
C22_IngestionExcludesInvalidRows ==
  /\ [][(ingestion'.rowNumber = ingestion.rowNumber + 1
           /\ (MissingRequired(ingestion'.data) \/ FailsValidator(ingestion'.data)))
          => ingestion'.results = ingestion.results]_vars
  /\ [](\A k \in 1..Len(ingestion.results) :
          \A f \in requiredFields :
            /\ f \in DOMAIN ingestion.results[k]
            /\ ingestion.results[k][f] \notin {"absent", "blank"})
  /\ [](ingestion.ended
          => ingestion.summary.validRecords + ingestion.summary.invalidRecords
               = ingestion.summary.totalRows)

\* The attempts counted in a sequence of entries.
RECURSIVE SumAttempts(_)
SumAttempts(entries) ==
  IF entries = <<>> THEN 0 ELSE Head(entries).attempts + SumAttempts(Tail(entries))

\* The attempts of the record in hand: made by a loop of e that is inside
\* the retry loop of processRecord.
RECURSIVE SumMade(_, _)
SumMade(e, ls) ==
  IF ls = {} THEN 0
  ELSE LET l == CHOOSE m \in ls : TRUE
       IN (IF loops[l].eng = e /\ loops[l].pc \in {"attempt", "retry"} THEN loops[l].made ELSE 0)
            + SumMade(e, ls \ {l})

\* All attempts (fillForm calls) the current run of e has made so far.
AttemptsMade(e) == SumAttempts(AllEntries(e)) + SumMade(e, Loops)

\* The run of e has one loop and no stop, pause or resume has reached it.
Uninterrupted(e) == solo[e] /\ ctl[e].kind = "none"

\* C31: a run that nothing interrupts, every driver call settling, comes to
\* an end with the controller not running; no record is attempted more than
\* maxRetries + 1 times, and a run started inside its record sequence makes
\* at most (len(records) - startIndex) * (maxRetries + 1) attempts.
C31_UninterruptedRunTerminates ==
  /\ \A e \in Engines :
       (Uninterrupted(e) /\ ActiveLoops(e) # {})
         ~> ((RunEnded(e) /\ ~isRunning[e]) \/ ~Uninterrupted(e))
  /\ [](\A e \in Engines :
          Uninterrupted(e)
            => /\ \A l \in ActiveLoops(e) : loops[l].made <= MaxRetries + 1
               /\ \A k \in 1..Len(AllEntries(e)) : AllEntries(e)[k].attempts <= MaxRetries + 1
               /\ (startIdx[e] >= 0 /\ startIdx[e] <= Len(records[e]))
                    => AttemptsMade(e) <= (Len(records[e]) - startIdx[e]) * (MaxRetries + 1))

\* An uninterrupted run over the longest sequence has ended after every
\* record failed all its attempts: the bound is reached.
C31_Witness ==
  \E e \in Engines :
    /\ Uninterrupted(e) /\ RunResolved(e) /\ ~isRunning[e]
    /\ startIdx[e] = 0 /\ Len(records[e]) = NumRecords
    /\ Len(results[e].failed) = NumRecords
    /\ AttemptsMade(e) = NumRecords * (MaxRetries + 1)

\* The failed attempts the run result and the record in hand account for:
\* attempts - 1 of every success, attempts of every failure, and retryCount
\* of a loop inside the retry loop of processRecord.
RECURSIVE SumInFlight(_, _)
SumInFlight(e, ls) ==
  IF ls = {} THEN 0
  ELSE LET l == CHOOSE m \in ls : TRUE
       IN (IF loops[l].eng = e /\ loops[l].pc \in {"attempt", "retry"}
           THEN loops[l].retryCount ELSE 0)
            + SumInFlight(e, ls \ {l})
FailedAttempts(e) ==
  (SumAttempts(results[e].successful) - Len(results[e].successful))
    + SumAttempts(results[e].failed) + SumInFlight(e, Loops)

\* C32: the retries figure of status() is the number of failed attempts of
\* the run.  It starts at 0, never decreases, and goes up by one exactly in
\* the steps in which an attempt fails, the exhausting one included; it
\* equals the failed attempts of the entries and of the record in hand, plus
\* those of a record the loop has left without an entry (after a stop, a
\* pause or a failed reset), which stay counted.
C32_RetriesCountFailedAttempts ==
  /\ [][\A e \in Engines :
          IF StartsRun(e)
          THEN getStatus(e).retries' = 0
          ELSE /\ getStatus(e).retries' >= getStatus(e).retries
               /\ getStatus(e).retries' - getStatus(e).retries
                    = IF \E l \in Loops : loops[l].eng = e /\ AttemptFails(l) THEN 1 ELSE 0
               /\ (getStatus(e).retries' - FailedAttempts(e)')
                    - (getStatus(e).retries - FailedAttempts(e))
                    = IF \E l \in Loops :
                           /\ loops[l].eng = e /\ RetryDone(l)
                           /\ loops'[l].pc \notin {"attempt", "retry"}
                      THEN SumInFlight(e, Loops)
                      ELSE 0]_vars
  /\ [](\A e \in Engines :
          Uninterrupted(e) /\ ActiveLoops(e) # {}
            => getStatus(e).retries = FailedAttempts(e))

\* A run has ended on a stop that left a record after one failed attempt,
\* with a success and a failure recorded before: retries counts the failed
\* attempt of the abandoned record too.
C32_Witness ==
  \E e \in Engines :
    /\ solo[e] /\ ctl[e].kind = "stop" /\ RunEnded(e)
    /\ Len(results[e].successful) > 0 /\ Len(results[e].failed) > 0
    /\ currentIndex[e] < Len(records[e])
    /\ getStatus(e).retries = FailedAttempts(e) + 1

\* C33: in every state 0 <= currentIndex <= len(records) and the progress
\* of status() lies in 0..100, whatever startIndex the accepted start passed.
C33_IndexAndProgressInRange ==
  \A e \in Engines :
    /\ currentIndex[e] >= 0
    /\ currentIndex[e] <= Len(records[e])
    /\ getStatus(e).progress >= 0
    /\ getStatus(e).progress <= 100

\* C34: the run flag is set only while an invocation of startAutomation is
\* in flight on the controller: never isRunning with no loop active.
C34_FlagImpliesLoop ==
  \A e \in Engines : isRunning[e] => ActiveLoops(e) # {}

\* C35: in a run of one loop, the step that records the terminal outcome of
\* a record (its success or its last failure) while the run is running and
\* records remain hands the loop to a navigation to a fresh form; and the
\* first attempt of a record is never begun by the step that ends the
\* attempt of another.
C35_FreshFormPerRecord ==
  [][\A l \in Loops :
       LET e == loops[l].eng IN
       (LoopStep(l) /\ solo[e])
         => /\ (Len(AllEntries(e)') > Len(AllEntries(e))
                  /\ isRunning[e] /\ currentIndex[e] + 1 < Len(records[e]))
                 => loops'[l].pc = "fresh"
            /\ loops[l].pc = "attempt" => loops'[l].pc # "attempt"]_vars

\* The columns fillForm writes into the form (this.fieldMappings) and those
\* it has a default for (this.defaultValues).
fieldMappings == Columns \ {"Sub-Teams"}
defaultValues == (Columns \ {"Title", "First Name", "Last Name"})

\* fillForm: record[csvField] || this.defaultValues[csvField]; a field with
\* neither is skipped.
FilledValue(rec, f) ==
  IF f \in DOMAIN rec /\ rec[f] \notin {"absent", "blank"} THEN rec[f]
  ELSE IF f \in defaultValues THEN "default"
  ELSE "skipped"

\* C36: when a row is accepted, every mapped column (Gender and Cell Name
\* included) for which the row has a valid value is written into the form
\* with the value of the row as its validator returns it, not with the
\* default.
C36_IngestionKeepsSuppliedFields ==
  [][Len(ingestion'.results) = Len(ingestion.results) + 1
       => LET rec == ingestion'.results[Len(ingestion'.results)]
              data == ingestion'.data
          IN \A f \in fieldMappings :
               data[f] = "good"
                 => FilledValue(rec, f) = (IF f \in fieldValidators
                                           THEN Validated(f, data[f]) ELSE data[f])]_vars

\* The engines whose browser is open.
OpenSessions == {e \in Engines : browser[e] = "open"}

\* C37: when POST /start replaces the engine the server holds, no other
\* handler being in flight, the browser of the engine it replaces is not
\* open, and so at most one browser is open afterwards.
C37_OneOpenSession ==
  [][(PostStart /\ automationEngine # NoEngine /\ starting = {})
       => /\ browser[automationEngine] # "open"
          /\ Cardinality(OpenSessions) <= 1]_vars

====
